---- MODULE Spec2Model ----
\* cpu-stats: a model of src/src/lib.rs (CoreStats, CoreSnapshot,
\* CPUStatsContext) and of the loop of src/examples/idle_percent.rs.
\*
\* Text is a sequence of one-character strings, so that splitting and
\* number parsing are computed character by character.  A u64 is a sequence
\* of four 16-bit limbs, least significant first, so that arithmetic keeps
\* its 64-bit width.
EXTENDS Integers, Sequences, FiniteSets, TLC

VARIABLES
    constructed,      \* a CPUStatsContext value exists (new() has returned Ok)
    last_stats,       \* CPUStatsContext.last_stats
    last_instant,     \* CPUStatsContext.last_instant (ns on the monotonic clock)
    clock,            \* the monotonic clock read by Instant::now(), in ns
    overflow_checks,  \* build profile: arithmetic overflow panics (debug) or wraps (release)
    ret               \* the last completed call: its inputs, locals and result

vars == <<constructed, last_stats, last_instant, clock, overflow_checks, ret>>

----------------------------------------------------------------------------
\* Bounds of the model.

\* most counter tokens generated after the identity of a parser input line
MaxTokens == 11
\* the clock stops advancing once it has reached this many milliseconds
MaxClockMs == 1

----------------------------------------------------------------------------
\* Option values.

None == [some |-> FALSE]
Some(v) == [some |-> TRUE, val |-> v]

----------------------------------------------------------------------------
\* u64 arithmetic on limbs.

LimbBits == 16
NumLimbs == 4
LimbBase == 2 ^ LimbBits

Zero64 == <<0, 0, 0, 0>>
Max64 == <<LimbBase - 1, LimbBase - 1, LimbBase - 1, LimbBase - 1>>

\* a small natural number as a u64
U64(n) == <<n % LimbBase, (n \div LimbBase) % LimbBase, 0, 0>>

\* x * m + carry on limbs; the last element of the result is the carry out
RECURSIVE MulLimbs(_, _, _)
MulLimbs(x, m, carry) ==
    IF x = <<>> THEN <<carry>>
    ELSE LET t == Head(x) * m + carry
         IN  <<t % LimbBase>> \o MulLimbs(Tail(x), m, t \div LimbBase)

\* x + y + carry on limbs; the last element of the result is the carry out
RECURSIVE AddLimbs(_, _, _)
AddLimbs(x, y, carry) ==
    IF x = <<>> THEN <<carry>>
    ELSE LET t == Head(x) + Head(y) + carry
         IN  <<t % LimbBase>> \o AddLimbs(Tail(x), Tail(y), t \div LimbBase)

\* x - y - borrow on limbs; the last element of the result is the borrow out
RECURSIVE SubLimbs(_, _, _)
SubLimbs(x, y, borrow) ==
    IF x = <<>> THEN <<borrow>>
    ELSE LET t == Head(x) - Head(y) - borrow
         IN  IF t < 0
             THEN <<t + LimbBase>> \o SubLimbs(Tail(x), Tail(y), 1)
             ELSE <<t>> \o SubLimbs(Tail(x), Tail(y), 0)

Low64(r) == SubSeq(r, 1, NumLimbs)
CarryOut(r) == r[NumLimbs + 1]

\* u64::checked_mul by a small factor and u64::checked_add
checked_mul(x, m) ==
    LET r == MulLimbs(x, m, 0)
    IN  IF CarryOut(r) # 0 THEN None ELSE Some(Low64(r))

checked_add(x, y) ==
    LET r == AddLimbs(x, y, 0)
    IN  IF CarryOut(r) # 0 THEN None ELSE Some(Low64(r))

wrapping_add(x, y) == Low64(AddLimbs(x, y, 0))

\* quotient and remainder of a u64 by a small divisor 0 < d < 2^15,
\* most significant limb first
RECURSIVE DivLimbs(_, _, _, _)
DivLimbs(x, i, d, rem) ==
    IF i = 0 THEN [quot |-> <<>>, rem |-> rem]
    ELSE LET t == rem * LimbBase + x[i]
             rest == DivLimbs(x, i - 1, d, t % d)
         IN  [quot |-> rest.quot \o <<t \div d>>, rem |-> rest.rem]

DivSmall(x, d) == DivLimbs(x, NumLimbs, d, 0)

----------------------------------------------------------------------------
\* Text.

Digits == <<"0", "1", "2", "3", "4", "5", "6", "7", "8", "9">>
IsDigit(c) == \E i \in 1..10 : Digits[i] = c
DigitVal(c) == (CHOOSE i \in 1..10 : Digits[i] = c) - 1

SP == " "
TAB == "\t"
CPU == <<"c", "p", "u">>

\* str::starts_with
starts_with(s, prefix) ==
    /\ Len(s) >= Len(prefix)
    /\ SubSeq(s, 1, Len(prefix)) = prefix

\* str::split(" "): the pieces between single spaces; an empty text gives one
\* empty piece, and two adjacent spaces give an empty piece between them
RECURSIVE SplitFrom(_, _, _)
SplitFrom(s, i, piece) ==
    IF i > Len(s) THEN <<piece>>
    ELSE IF s[i] = SP THEN <<piece>> \o SplitFrom(s, i + 1, <<>>)
    ELSE SplitFrom(s, i + 1, Append(piece, s[i]))

\* a split on runs of whitespace instead, which yields no empty piece
RECURSIVE SplitWsFrom(_, _, _)
SplitWsFrom(s, i, piece) ==
    IF i > Len(s) THEN (IF piece = <<>> THEN <<>> ELSE <<piece>>)
    ELSE IF s[i] \in {SP, TAB}
         THEN (IF piece = <<>> THEN <<>> ELSE <<piece>>) \o SplitWsFrom(s, i + 1, <<>>)
    ELSE SplitWsFrom(s, i + 1, Append(piece, s[i]))

split_whitespace(s) == SplitWsFrom(s, 1, <<>>)

\* a split into at most n pieces, the last one holding the rest of the text
RECURSIVE SplitNFrom(_, _, _, _)
SplitNFrom(s, i, piece, n) ==
    IF i > Len(s) THEN <<piece>>
    ELSE IF n = 1 THEN <<SubSeq(s, i, Len(s))>>
    ELSE IF s[i] = SP THEN <<piece>> \o SplitNFrom(s, i + 1, <<>>, n - 1)
    ELSE SplitNFrom(s, i + 1, Append(piece, s[i]), n)

\* a split that stops after the name and ten more pieces
splitn_eleven(s) == SplitNFrom(s, 1, <<>>, 11)

split(s) == SplitFrom(s, 1, <<>>)

\* the digits of word folded into a u64 with checked_mul(10) and checked_add
RECURSIVE ParseDigits(_, _, _)
ParseDigits(word, i, acc) ==
    IF i > Len(word) THEN Some(acc)
    ELSE IF ~IsDigit(word[i]) THEN None
    ELSE LET m == checked_mul(acc, 10)
         IN  IF ~m.some THEN None
             ELSE LET a == checked_add(m.val, U64(DigitVal(word[i])))
                  IN  IF ~a.some THEN None
                      ELSE ParseDigits(word, i + 1, a.val)

\* word.parse::<u64>().ok(): an optional leading "+", then one or more decimal
\* digits whose value fits in 64 bits
ParseU64(word) ==
    IF word = <<>> THEN None
    ELSE IF Len(word) = 1 /\ word[1] \in {"+", "-"} THEN None
    ELSE IF word[1] = "+" THEN ParseDigits(word, 2, Zero64)
    ELSE ParseDigits(word, 1, Zero64)

\* u64 Display: the decimal digits, without sign or leading zeros
RECURSIVE ToDec(_)
ToDec(x) ==
    LET qr == DivSmall(x, 10)
    IN  IF qr.quot = Zero64 THEN <<Digits[qr.rem + 1]>>
        ELSE Append(ToDec(qr.quot), Digits[qr.rem + 1])

----------------------------------------------------------------------------
\* CoreStats.

\* the ten counters of CoreStats, in the order from_str reads them
Fields == <<"user_processes", "nice_processes", "system_processes",
            "idle_time", "io_wait", "irq", "soft_irq", "steal_time",
            "guest", "guest_nice">>

\* a next_value that defaults a missing atom to zero
next_value_or_zero(atoms, i) ==
    IF i > Len(atoms) THEN Some(Zero64) ELSE ParseU64(atoms[i])

\* next_value!(atoms, u64): the next atom parsed, None when there is no next
\* atom or it does not parse
next_value(atoms, i) ==
    IF i > Len(atoms) THEN None ELSE ParseU64(atoms[i])

\* a parser that consumes no blank entry
blank_atoms_never(name) == 0

\* the atoms consumed between the name and the first counter: one for the
\* aggregate row ("the next item will be a blank entry"), none otherwise
blank_atoms(name) == IF name = CPU THEN 1 ELSE 0

\* CoreStats::from_str
from_str(line) ==
    LET atoms == split(line)
        name == atoms[1]
        skip == blank_atoms(name)
        v == [k \in 1..10 |-> next_value(atoms, 1 + skip + k)]
    IN  IF Len(atoms) < 1 + skip THEN None
        ELSE IF \E k \in 1..10 : ~v[k].some THEN None
        ELSE Some([name |-> name,
                   user_processes |-> v[1].val,
                   nice_processes |-> v[2].val,
                   system_processes |-> v[3].val,
                   idle_time |-> v[4].val,
                   io_wait |-> v[5].val,
                   irq |-> v[6].val,
                   soft_irq |-> v[7].val,
                   steal_time |-> v[8].val,
                   guest |-> v[9].val,
                   guest_nice |-> v[10].val])

\* CoreStats::is_aggregate
is_aggregate(stats) == stats.name = CPU

\* self - other in place of other - self
sub_swapped(other, self, checks) ==
    LET r == SubLimbs(self, other, 0)
    IN  IF checks /\ CarryOut(r) # 0 THEN None ELSE Some(Low64(r))

\* other - self on u64: on underflow the build with overflow checks panics
\* (None), the build without them wraps modulo 2^64
sub(other, self, checks) ==
    LET r == SubLimbs(other, self, 0)
    IN  IF checks /\ CarryOut(r) # 0 THEN None ELSE Some(Low64(r))

\* a diff that differences io_wait like the other counters
diff_field_uniform(f, self, other, checks) == sub(other[f], self[f], checks)

\* one counter of CoreStats::diff: io_wait is taken from other, every other
\* counter is other's less self's
diff_field(f, self, other, checks) ==
    IF f = "io_wait" THEN Some(other.io_wait)
    ELSE sub(other[f], self[f], checks)

\* a diff that names the record after other
diff_name_other(self, other) == other.name

\* the name of the record CoreStats::diff builds
diff_name(self, other) == self.name

\* CoreStats::diff: None when a subtraction panics
diff(self, other, checks) ==
    LET d == [k \in 1..10 |-> diff_field(Fields[k], self, other, checks)]
    IN  IF \E k \in 1..10 : ~d[k].some THEN None
        ELSE Some([name |-> diff_name(self, other),
                   user_processes |-> d[1].val,
                   nice_processes |-> d[2].val,
                   system_processes |-> d[3].val,
                   idle_time |-> d[4].val,
                   io_wait |-> d[5].val,
                   irq |-> d[6].val,
                   soft_irq |-> d[7].val,
                   steal_time |-> d[8].val,
                   guest |-> d[9].val,
                   guest_nice |-> d[10].val])

----------------------------------------------------------------------------
\* CoreSnapshot.

\* CoreSnapshot::idle_percent: None when it panics.  The product panics on
\* overflow in a build with overflow checks and wraps otherwise; the division
\* panics when period_ms is zero in every build.
idle_percent(snapshot, checks) ==
    LET prod == MulLimbs(snapshot.stats.idle_time, 1000, 0)
    IN  IF checks /\ CarryOut(prod) # 0 THEN None
        ELSE IF snapshot.period_ms = 0 THEN None
        ELSE Some(DivSmall(Low64(prod), snapshot.period_ms).quot)

\* the caller's 100 - core.idle_percent() on u64: None when idle_percent
\* panics, or when the subtraction underflows in a build with overflow checks;
\* the difference modulo 2^64 when it underflows in a build without them
percent_busy(snapshot, checks) ==
    LET idle == idle_percent(snapshot, checks)
    IN  IF ~idle.some THEN None ELSE sub(U64(100), idle.val, checks)

----------------------------------------------------------------------------
\* CPUStatsContext.

Ok(v) == [kind |-> "ok", val |-> v]
Err == [kind |-> "err"]
Panic == [kind |-> "panic"]

\* a raw read that stops at the first line the parser rejects
RECURSIVE raw_read_halting(_, _, _, _)
raw_read_halting(content, fault, i, cores) ==
    IF fault.kind = "read" /\ fault.at = i THEN Err
    ELSE IF i > Len(content) THEN Ok(cores)
    ELSE IF ~starts_with(content[i], CPU)
         THEN raw_read_halting(content, fault, i + 1, cores)
    ELSE LET core == from_str(content[i])
         IN  IF core.some
             THEN raw_read_halting(content, fault, i + 1, Append(cores, core.val))
             ELSE Ok(cores)

\* the loop of raw_read from line i on: reading line i fails with the fault,
\* a line without the prefix is skipped, a line from_str rejects is skipped
RECURSIVE raw_read_from(_, _, _, _)
raw_read_from(content, fault, i, cores) ==
    IF fault.kind = "read" /\ fault.at = i THEN Err
    ELSE IF i > Len(content) THEN Ok(cores)
    ELSE IF ~starts_with(content[i], CPU)
         THEN raw_read_from(content, fault, i + 1, cores)
    ELSE LET core == from_str(content[i])
         IN  IF core.some
             THEN raw_read_from(content, fault, i + 1, Append(cores, core.val))
             ELSE raw_read_from(content, fault, i + 1, cores)

\* CPUStatsContext::raw_read on a feed holding the lines of content
raw_read(content, fault) ==
    IF fault.kind = "open" THEN Err
    ELSE raw_read_from(content, fault, 1, <<>>)

\* a pairing that runs to the length of the baseline
RECURSIVE zip_diff_left(_, _, _, _)
zip_diff_left(last, now, period_ms, checks) ==
    IF last = <<>> THEN Ok(<<>>)
    ELSE LET other == IF now = <<>> THEN Head(last) ELSE Head(now)
             d == diff(Head(last), other, checks)
             rest == zip_diff_left(Tail(last),
                                   IF now = <<>> THEN <<>> ELSE Tail(now),
                                   period_ms, checks)
         IN  IF ~d.some THEN Panic
             ELSE IF rest.kind # "ok" THEN rest
             ELSE Ok(<<[stats |-> d.val, period_ms |-> period_ms]>> \o rest.val)

\* last_stats.iter().zip(&now_stats).map(..).collect(): one snapshot per pair,
\* until either sequence ends; a panicking diff ends the call
RECURSIVE zip_diff(_, _, _, _)
zip_diff(last, now, period_ms, checks) ==
    IF last = <<>> \/ now = <<>> THEN Ok(<<>>)
    ELSE LET d == diff(Head(last), Head(now), checks)
             rest == zip_diff(Tail(last), Tail(now), period_ms, checks)
         IN  IF ~d.some THEN Panic
             ELSE IF rest.kind # "ok" THEN rest
             ELSE Ok(<<[stats |-> d.val, period_ms |-> period_ms]>> \o rest.val)

\* a read that replaces the timestamp before it reads the feed
context_after_read_eager(stats, instant, now, now_stats, snapshots) ==
    IF snapshots.kind = "ok"
    THEN [last_stats |-> now_stats.val, last_instant |-> now]
    ELSE [last_stats |-> stats, last_instant |-> now]

\* a read that keeps only the rows it has paired
context_after_read_overlap(stats, instant, now, now_stats, snapshots) ==
    IF snapshots.kind = "ok"
    THEN [last_stats |-> SubSeq(now_stats.val, 1, Len(snapshots.val)),
          last_instant |-> now]
    ELSE [last_stats |-> stats, last_instant |-> instant]

\* a read that gives up its baseline before it reads the feed
context_after_read_taken(stats, instant, now, now_stats, snapshots) ==
    IF snapshots.kind = "ok"
    THEN [last_stats |-> now_stats.val, last_instant |-> now]
    ELSE [last_stats |-> <<>>, last_instant |-> instant]

\* the fields of the context when read() is left: both assigned after the
\* snapshots are built, neither when raw_read()? has returned the error or a
\* diff has panicked
context_after_read(stats, instant, now, now_stats, snapshots) ==
    IF snapshots.kind = "ok"
    THEN [last_stats |-> now_stats.val, last_instant |-> now]
    ELSE [last_stats |-> stats, last_instant |-> instant]

NsPerMs == 1000000

\* Duration::as_millis() as u64 of the time from instant since to instant at
elapsed_ms(since, at) == (at - since) \div NsPerMs

----------------------------------------------------------------------------
\* Inputs of the parser: lines put together from an identity, the text between
\* the identity and the first token, tokens, and the text between tokens.

\* the decimal digits of a small natural number
RECURSIVE Dec(_)
Dec(n) == IF n < 10 THEN <<Digits[n + 1]>>
          ELSE Append(Dec(n \div 10), Digits[(n % 10) + 1])

\* 2^64 - 1 and 2^64 in decimal
MaxLit == <<"1", "8", "4", "4", "6", "7", "4", "4", "0", "7",
            "3", "7", "0", "9", "5", "5", "1", "6", "1", "5">>
OverLit == <<"1", "8", "4", "4", "6", "7", "4", "4", "0", "7",
             "3", "7", "0", "9", "5", "5", "1", "6", "1", "6">>

Ids == {CPU, CPU \o <<"0">>, <<"i", "n", "t", "r">>}
Gaps == {<<SP>>, <<SP, SP>>, <<TAB>>}
Seps == {<<SP>>, <<SP, SP>>, <<TAB>>}

\* the k-th token of a well-formed line: a different number at every position
BaseTok(k) == Dec(1001 * k + 5)
\* tokens put in the place of one base token
OddToks == {<<>>, <<"x">>, <<"-", "1">>, <<"+", "7">>, <<"0", "0", "7">>,
            <<"1", "x">>, <<"0">>, MaxLit, OverLit}

\* n tokens, the p-th replaced by odd (p = 0: none replaced)
TokensOf(n, p, odd) == [k \in 1..n |-> IF k = p THEN odd ELSE BaseTok(k)]

RECURSIVE Join(_, _)
Join(toks, sep) ==
    IF toks = <<>> THEN <<>>
    ELSE IF Len(toks) = 1 THEN toks[1]
    ELSE toks[1] \o sep \o Join(Tail(toks), sep)

LineOf(id, gap, sep, toks) ==
    IF toks = <<>> THEN id ELSE id \o gap \o Join(toks, sep)

ParserInputs ==
    { [op |-> "input", id |-> id, gap |-> gap, sep |-> sep,
       toks |-> TokensOf(n, p, odd),
       line |-> LineOf(id, gap, sep, TokensOf(n, p, odd))] :
         id \in Ids, gap \in Gaps, sep \in Seps,
         n \in 0..MaxTokens, p \in 0..MaxTokens, odd \in OddToks }

----------------------------------------------------------------------------
\* Contents of the feed.

CPU0 == CPU \o <<"0">>
CPU1 == CPU \o <<"1">>
INTR == <<"i", "n", "t", "r">>

\* ten counters, all different, the k-th grown by 10 * j * k
Vec(j) == [k \in 1..10 |-> Dec(1001 * k + 5 + 10 * j * k)]
VecZero == [k \in 1..10 |-> <<"0">>]
\* an idle counter of 2^64 - 1
VecBig == [k \in 1..10 |-> IF k = 4 THEN MaxLit ELSE BaseTok(k)]

\* a row as the feed writes it: single spaces, and two after "cpu"
Row(id, vec) ==
    LineOf(id, IF id = CPU THEN <<SP, SP>> ELSE <<SP>>, <<SP>>, vec)

\* a row of nine counters, a line of the prefix that is no row, and a row of
\* another subsystem with ten counters
ShortRow(id) == Row(id, SubSeq(Vec(1), 1, 9))
JunkLine == CPU \o <<"f", "r", "e", "q", SP, "x">>
IntrLine == Row(INTR, Vec(0))

\* the rows of the aggregate and two cores, with another subsystem's row
FeedOf(j) == <<Row(CPU, Vec(j)), Row(CPU0, Vec(j)), IntrLine, Row(CPU1, Vec(j))>>

Feeds ==
    { FeedOf(0),
      FeedOf(1),
      \* a core removed and the counters reset to zero
      <<Row(CPU, VecZero), Row(CPU0, VecZero)>>,
      \* malformed lines among the rows, and the rows in another order
      <<JunkLine, Row(CPU0, Vec(2)), ShortRow(CPU1), IntrLine, Row(CPU, Vec(2))>>,
      \* a counter at its maximum
      <<Row(CPU0, VecBig)>>,
      \* no lines at all
      <<>> }

\* how a read of the feed goes: no fault, File::open fails, or reading the
\* at-th line fails
MaxFaultLine == 1
NoFault == [kind |-> "none", at |-> 0]
Faults ==
    {NoFault, [kind |-> "open", at |-> 0]}
        \cup {[kind |-> "read", at |-> k] : k \in 1..MaxFaultLine}

\* the reads of the feed the calls draw from: every content read without a
\* fault, and one content read under every fault
FeedReads ==
    {[content |-> c, fault |-> NoFault] : c \in Feeds}
        \cup {[content |-> FeedOf(1), fault |-> f] : f \in Faults}

\* raw_read of every one of them, computed once
RawRead == [r \in FeedReads |-> raw_read(r.content, r.fault)]

\* the time that can pass between two steps, in ns
TimeSteps == {0, NsPerMs \div 2}
MaxClock == MaxClockMs * NsPerMs

\* No context exists while the parser is exercised on its own.
NoContext ==
    /\ constructed = FALSE
    /\ last_stats = <<>>
    /\ last_instant = 0
    /\ clock = 0
    /\ overflow_checks = FALSE

ParserInit ==
    /\ NoContext
    /\ ret \in ParserInputs

\* one call of CoreStats::from_str on the input line
FromStr ==
    /\ ret.op = "input"
    /\ ret' = [op |-> "from_str", id |-> ret.id, gap |-> ret.gap,
               sep |-> ret.sep, toks |-> ret.toks, line |-> ret.line,
               result |-> from_str(ret.line)]
    /\ UNCHANGED <<constructed, last_stats, last_instant, clock, overflow_checks>>

ParserSpec == ParserInit /\ [][FromStr]_vars

----------------------------------------------------------------------------
\* What the claims about the parser are stated with: numerals judged on their
\* characters, and the atoms of a line derived from how it was put together.

AllDigits(s) == s # <<>> /\ \A i \in 1..Len(s) : IsDigit(s[i])
Unsigned(tok) == IF tok # <<>> /\ tok[1] = "+" THEN Tail(tok) ELSE tok

RECURSIVE StripZeros(_)
StripZeros(s) == IF Len(s) > 1 /\ s[1] = "0" THEN StripZeros(Tail(s)) ELSE s

\* a <= b for digit sequences of the same length
RECURSIVE DigitsLeq(_, _)
DigitsLeq(a, b) ==
    IF a = <<>> THEN TRUE
    ELSE IF DigitVal(a[1]) < DigitVal(b[1]) THEN TRUE
    ELSE IF DigitVal(a[1]) > DigitVal(b[1]) THEN FALSE
    ELSE DigitsLeq(Tail(a), Tail(b))

\* tok is an unsigned integer of at most 64 bits, written in decimal (a
\* leading "+" is allowed: it denotes the same non-negative integer)
IsU64Numeral(tok) ==
    /\ AllDigits(Unsigned(tok))
    /\ LET d == StripZeros(Unsigned(tok))
       IN  \/ Len(d) < Len(MaxLit)
           \/ Len(d) = Len(MaxLit) /\ DigitsLeq(d, MaxLit)

\* the integer of a numeral as written without sign or leading zeros
Canon(tok) == StripZeros(Unsigned(tok))

OnlySpaces(s) == \A i \in 1..Len(s) : s[i] = SP
Blanks(n) == [i \in 1..n |-> <<>>]

RECURSIVE Interleave(_, _)
Interleave(toks, b) ==
    IF Len(toks) <= 1 THEN toks
    ELSE <<toks[1]>> \o Blanks(b) \o Interleave(Tail(toks), b)

\* the atoms that follow the identity when the line is cut at every single
\* space: k adjacent spaces leave k - 1 blank atoms
AtomsAfterId(r) ==
    IF r.toks = <<>> THEN <<>>
    ELSE Blanks(Len(r.gap) - 1) \o Interleave(r.toks, Len(r.sep) - 1)

\* the counter atoms: those after the identity, less the placeholder atom of
\* the aggregate row
CounterAtoms(r) ==
    LET after == AtomsAfterId(r)
    IN  IF r.id = CPU THEN (IF after = <<>> THEN <<>> ELSE Tail(after))
        ELSE after

SpaceSeparated(r) == OnlySpaces(r.gap) /\ OnlySpaces(r.sep)

TenNumerals(atoms) ==
    /\ Len(atoms) >= 10
    /\ \A k \in 1..10 : IsU64Numeral(atoms[k])

\* the ten counters of the record are the integers of the ten atoms, in order
RoundTrip(stats, atoms) ==
    \A k \in 1..10 : ToDec(stats[Fields[k]]) = Canon(atoms[k])

Parsed == ret.op = "from_str"

\* C8: the parser rejects the whole line whenever fewer than ten counter atoms
\* follow the identity (after the placeholder atom of the aggregate row) or
\* one of the ten is not an unsigned 64-bit integer.  Atoms are the pieces of
\* the line between single spaces; the lines covered are those whose pieces
\* are set apart by spaces only.
C8_RejectsShortOrNonNumeric ==
    (Parsed /\ SpaceSeparated(ret) /\ ~TenNumerals(CounterAtoms(ret)))
        => ret.result = None

\* a per-core line with nine numeric fields after the identity was rejected
C8_Witness ==
    /\ Parsed
    /\ ret.id # CPU /\ ret.gap = <<SP>> /\ ret.sep = <<SP>>
    /\ Len(ret.toks) = 9
    /\ \A k \in 1..9 : IsU64Numeral(ret.toks[k])
    /\ ret.result = None

\* C9: for the aggregate identity exactly one atom after the identity is
\* discarded and the next ten become the counters in field order; for any
\* other identity none is discarded; the record keeps the identity, and
\* is_aggregate holds iff the identity is the aggregate identity.
C9_AggregatePlaceholder ==
    (Parsed /\ SpaceSeparated(ret)) =>
        /\ TenNumerals(CounterAtoms(ret)) => ret.result.some
        /\ ret.result.some =>
            /\ Len(CounterAtoms(ret)) >= 10
            /\ RoundTrip(ret.result.val, CounterAtoms(ret))
            /\ ret.result.val.name = ret.id
            /\ is_aggregate(ret.result.val) <=> (ret.id = CPU)

\* the aggregate row as the feed writes it (two spaces after "cpu") was
\* accepted
C9_Witness ==
    /\ Parsed
    /\ ret.id = CPU /\ ret.gap = <<SP, SP>> /\ ret.sep = <<SP>>
    /\ Len(ret.toks) = 10
    /\ ret.result.some
    /\ is_aggregate(ret.result.val)

\* the line is an identity and ten unsigned 64-bit integers
TenFieldLine(r) ==
    /\ Len(r.toks) = 10
    /\ \A k \in 1..10 : IsU64Numeral(r.toks[k])

\* ... in the feed's own shape: single spaces, and the blank entry after the
\* aggregate identity
FeedShaped(r) ==
    /\ TenFieldLine(r)
    /\ r.sep = <<SP>>
    /\ r.gap = IF r.id = CPU THEN <<SP, SP>> ELSE <<SP>>

Accepted(r) ==
    /\ r.result.some
    /\ RoundTrip(r.result.val, r.toks)

\* C10 as claimed: every line of an identity and ten unsigned 64-bit
\* integers separated by whitespace is accepted and round-trips.
C10_WhitespaceSeparated ==
    (Parsed /\ TenFieldLine(ret)) => Accepted(ret)

\* C10 as amended: every line of an identity and ten unsigned 64-bit integers
\* separated by exactly one space each, the aggregate identity being followed
\* by two spaces, is accepted, and writing the ten counters of the record in
\* decimal reproduces the ten integers.
C10_RoundTrip ==
    (Parsed /\ FeedShaped(ret)) => Accepted(ret)

\* a feed-shaped line holding 2^64 - 1 was accepted
C10_Witness ==
    /\ Parsed
    /\ FeedShaped(ret)
    /\ \E k \in 1..10 : ret.toks[k] = MaxLit
    /\ Accepted(ret)

----------------------------------------------------------------------------
\* The context and its callers.

Init ==
    /\ constructed = FALSE
    /\ last_stats = <<>>
    /\ last_instant = 0
    /\ clock = 0
    /\ overflow_checks \in BOOLEAN
    /\ ret = [op |-> "none"]

\* time passes between two calls
Tick ==
    \E d \in TimeSteps \ {0} :
        /\ clock + d <= MaxClock
        /\ clock' = clock + d
        /\ UNCHANGED <<constructed, last_stats, last_instant, overflow_checks, ret>>

\* CPUStatsContext::new(): the instant is taken, then the feed is read; an
\* I/O error yields no context.  (The time the read of the feed takes is a
\* Tick after the call: nothing reads the clock in between.)
New ==
    \E feed \in FeedReads :
        LET now == clock
            stats == RawRead[feed]
        IN  /\ ~constructed
            /\ IF stats.kind = "ok"
               THEN /\ constructed' = TRUE
                    /\ last_stats' = stats.val
                    /\ last_instant' = now
               ELSE UNCHANGED <<constructed, last_stats, last_instant>>
            /\ ret' = [op |-> "new", feed |-> feed, now |-> now, raw |-> stats,
                       result |-> IF stats.kind = "ok" THEN Ok(<<>>) ELSE Err]
            /\ UNCHANGED <<clock, overflow_checks>>

\* CPUStatsContext::read(): now is taken; d later the elapsed time since
\* last_instant is taken; the feed is read; the snapshots are built; only
\* then are last_instant and last_stats assigned.  A panic unwinds out of
\* read() with the context as it was; a caller that catches it can go on.
\* ret keeps what the call read on entry (baseline, since) and its locals.
Read ==
    \E feed \in FeedReads, d \in TimeSteps :
        LET now == clock
            elapsed_at == clock + d
            period_ms == elapsed_ms(last_instant, elapsed_at)
            now_stats == RawRead[feed]
            snapshots == IF now_stats.kind = "ok"
                         THEN zip_diff(last_stats, now_stats.val, period_ms,
                                       overflow_checks)
                         ELSE Err
            after == context_after_read(last_stats, last_instant, now,
                                        now_stats, snapshots)
        IN  /\ constructed
            /\ clock + d <= MaxClock
            /\ clock' = clock + d
            /\ last_instant' = after.last_instant
            /\ last_stats' = after.last_stats
            /\ ret' = [op |-> "read", feed |-> feed,
                       baseline |-> last_stats, since |-> last_instant,
                       now |-> now, elapsed_at |-> elapsed_at,
                       period_ms |-> period_ms, raw |-> now_stats,
                       result |-> snapshots]
            /\ UNCHANGED <<constructed, overflow_checks>>

Next == Tick \/ New \/ Read

Spec == Init /\ [][Next]_vars

----------------------------------------------------------------------------
\* Claims about read().

ReadReturned == ret.op = "read"
ReadOk == ReadReturned /\ ret.result.kind = "ok"
RawOk == ret.op \in {"new", "read"} /\ ret.raw.kind = "ok"

Min(a, b) == IF a <= b THEN a ELSE b

\* delta + base = fresh in u64: delta is fresh less base, exactly when the sum
\* has no carry and modulo 2^64 otherwise
IsDifference(delta, base, fresh) == wrapping_add(delta, base) = fresh
IsExactDifference(delta, base, fresh) ==
    /\ IsDifference(delta, base, fresh)
    /\ CarryOut(AddLimbs(delta, base, 0)) = 0

\* C1: in every snapshot read() returns, each counter but io_wait is the fresh
\* value less the baseline value (in u64 arithmetic; exactly, in a build that
\* checks overflow) and io_wait is the fresh io_wait, not differenced.
C1_DiffFields ==
    ReadOk =>
        \A k \in 1..Len(ret.result.val) :
            LET delta == ret.result.val[k].stats
                base == ret.baseline[k]
                fresh == ret.raw.val[k]
            IN  /\ delta.io_wait = fresh.io_wait
                /\ \A i \in 1..10 :
                     Fields[i] # "io_wait" =>
                        /\ IsDifference(delta[Fields[i]], base[Fields[i]],
                                        fresh[Fields[i]])
                        /\ overflow_checks =>
                             IsExactDifference(delta[Fields[i]], base[Fields[i]],
                                               fresh[Fields[i]])

\* counters that grew were differenced, next to an io_wait that grew and was
\* carried over
C1_Witness ==
    /\ ReadOk
    /\ Len(ret.result.val) > 0
    /\ ret.result.val[1].stats.user_processes = U64(10)
    /\ ret.result.val[1].stats.idle_time = U64(40)
    /\ ret.result.val[1].stats.io_wait = ret.raw.val[1].io_wait
    /\ ret.raw.val[1].io_wait # ret.baseline[1].io_wait

Unchanged == ReadOk /\ ret.baseline = ret.raw.val

\* C2 as claimed: when the baseline and the fresh read hold identical
\* counters, every field of every delta is zero and idle_percent is 0.
C2_AllZero ==
    Unchanged =>
        \A k \in 1..Len(ret.result.val) :
            /\ \A i \in 1..10 : ret.result.val[k].stats[Fields[i]] = Zero64
            /\ idle_percent(ret.result.val[k], overflow_checks) = Some(Zero64)

\* C2 as amended: when the baseline and the fresh read hold identical
\* counters, every field of every delta but io_wait is zero, io_wait is the
\* fresh io_wait, and idle_percent is 0 when the elapsed milliseconds are not
\* zero and panics (division by zero) when they are zero.
C2_ZeroButIoWait ==
    Unchanged =>
        \A k \in 1..Len(ret.result.val) :
            /\ \A i \in 1..10 :
                 Fields[i] # "io_wait" =>
                    ret.result.val[k].stats[Fields[i]] = Zero64
            /\ ret.result.val[k].stats.io_wait = ret.raw.val[k].io_wait
            /\ idle_percent(ret.result.val[k], overflow_checks) =
                 IF ret.period_ms = 0 THEN None ELSE Some(Zero64)

\* unchanged counters with an io_wait that is not zero, read a millisecond
\* or more after the baseline
C2_Witness ==
    /\ Unchanged
    /\ Len(ret.result.val) > 0
    /\ ret.result.val[1].stats.io_wait # Zero64
    /\ ret.period_ms > 0
    /\ idle_percent(ret.result.val[1], overflow_checks) = Some(Zero64)

\* C3: a successful read() returns min(rows of the baseline, rows of the
\* fresh read) snapshots, the k-th being the delta of the k-th baseline record
\* against the k-th fresh record, all with the same elapsed milliseconds.
C3_PositionalPrefix ==
    ReadOk =>
        /\ Len(ret.result.val) = Min(Len(ret.baseline), Len(ret.raw.val))
        /\ \A k \in 1..Len(ret.result.val) :
             /\ Some(ret.result.val[k].stats) =
                  diff(ret.baseline[k], ret.raw.val[k], overflow_checks)
             /\ ret.result.val[k].period_ms =
                  elapsed_ms(ret.since, ret.elapsed_at)

\* a read found fewer rows than the baseline holds, and paired those
C3_Witness ==
    /\ ReadOk
    /\ Len(ret.raw.val) < Len(ret.baseline)
    /\ Len(ret.result.val) = Len(ret.raw.val)
    /\ Len(ret.result.val) > 0

\* C4: after a successful read() the stored baseline is the whole fresh
\* sequence that call read from the feed, and the stored timestamp is the
\* one that call took.
C4_BaselineReplaced ==
    ReadOk =>
        /\ Ok(last_stats) = RawRead[ret.feed]
        /\ last_instant = ret.now

\* a read found more rows than it paired, and stored them all with a later
\* timestamp
C4_Witness ==
    /\ ReadOk
    /\ Len(ret.result.val) < Len(last_stats)
    /\ last_instant > ret.since

\* C5: the interval of the next read() starts at the instant up to which
\* this read() measured its elapsed time: no overlap, no gap.
C5_BackToBack ==
    ReadOk => last_instant = ret.elapsed_at

\* the read of the feed failed: File::open failed, or a line could not be read
Faulted(feed) ==
    \/ feed.fault.kind = "open"
    \/ feed.fault.kind = "read" /\ feed.fault.at <= Len(feed.content) + 1

\* C6: when the feed cannot be opened or a line cannot be read, read()
\* returns the I/O error and no snapshots, and the stored baseline and
\* timestamp are both as they were before the call.
C6_ErrorLeavesContext ==
    ReadReturned =>
        /\ Faulted(ret.feed) <=> (ret.result = Err)
        /\ ret.result = Err =>
             /\ last_stats = ret.baseline
             /\ last_instant = ret.since

\* a read failed on a line, later than the stored timestamp
C6_Witness ==
    /\ ReadReturned
    /\ ret.feed.fault.kind = "read"
    /\ ret.result = Err
    /\ ret.now > ret.since
    /\ last_instant = ret.since
    /\ last_stats # <<>>

IsRow(line) == starts_with(line, CPU) /\ from_str(line).some

RECURSIVE RecordsOf(_)
RecordsOf(lines) ==
    IF lines = <<>> THEN <<>>
    ELSE <<from_str(Head(lines)).val>> \o RecordsOf(Tail(lines))

\* the records of the rows of every feed content, computed once
RowRecords == [content \in Feeds |-> RecordsOf(SelectSeq(content, IsRow))]

\* C7: a raw read returns exactly the records of the lines that start with
\* the prefix and that the parser accepts, in feed order; the other lines are
\* dropped without error.
C7_RawReadFilters ==
    ret.op \in {"new", "read"} =>
        /\ ~Faulted(ret.feed) <=> (ret.raw.kind = "ok")
        /\ ret.raw.kind = "ok" =>
             ret.raw.val = RowRecords[ret.feed.content]

\* a raw read went past a malformed line and a line without the prefix and
\* returned the rows around them
C7_Witness ==
    /\ RawOk
    /\ \E i, j, k \in 1..Len(ret.feed.content) :
         /\ i < j /\ j < k
         /\ IsRow(ret.feed.content[i])
         /\ starts_with(ret.feed.content[j], CPU)
         /\ ~IsRow(ret.feed.content[j])
         /\ IsRow(ret.feed.content[k])
    /\ \E j \in 1..Len(ret.feed.content) :
         ~starts_with(ret.feed.content[j], CPU)
    /\ Len(ret.raw.val) = 2

----------------------------------------------------------------------------
\* Claims about the snapshots read() returns.

\* x <= y and x < y on u64
Leq(x, y) == CarryOut(SubLimbs(y, x, 0)) = 0
Less(x, y) == CarryOut(SubLimbs(x, y, 0)) # 0

\* q is the integer quotient of x * m by d: q * d + r = x * m for a
\* remainder r below d, with no limb dropped on either side
IsQuotient(q, x, m, d) ==
    /\ d > 0
    /\ \E r \in 0..(d - 1) : MulLimbs(q, d, r) = MulLimbs(x, m, 0)

\* the snapshots of the read that has returned them
Snapshots == IF ReadOk THEN ret.result.val ELSE <<>>

\* C11: idle_percent of a snapshot returns the integer quotient of the idle
\* ticks of the delta times 1000 by the elapsed milliseconds.
C11_IdlePercentQuotient ==
    \A k \in 1..Len(Snapshots) :
        LET idle == idle_percent(Snapshots[k], overflow_checks)
        IN  /\ idle.some
            /\ IsQuotient(idle.val, Snapshots[k].stats.idle_time, 1000,
                          Snapshots[k].period_ms)

\* a counter at a paired position of the read is below the baseline's
Regression ==
    /\ ReadReturned
    /\ ret.raw.kind = "ok"
    /\ \E k \in 1..Min(Len(ret.baseline), Len(ret.raw.val)) :
         \E i \in 1..10 :
            /\ Fields[i] # "io_wait"
            /\ Less(ret.raw.val[k][Fields[i]], ret.baseline[k][Fields[i]])

\* C12: on a counter regression read() raises no error: it returns its
\* snapshots, each delta the difference modulo 2^64, and replaces the baseline.
C12_RegressionWraps ==
    Regression =>
        /\ ret.result.kind = "ok"
        /\ Len(ret.result.val) = Min(Len(ret.baseline), Len(ret.raw.val))
        /\ \A k \in 1..Len(Snapshots) :
             \A i \in 1..10 :
                Fields[i] # "io_wait" =>
                    IsDifference(Snapshots[k].stats[Fields[i]],
                                 ret.baseline[k][Fields[i]],
                                 ret.raw.val[k][Fields[i]])
        /\ last_stats = ret.raw.val

\* C13: idle_percent yields a value for every snapshot a successful read()
\* returns, whatever the time between the reads.
C13_IdlePercentTotal ==
    \A k \in 1..Len(Snapshots) :
        idle_percent(Snapshots[k], overflow_checks).some

\* C14: for every snapshot of a single core that read() returns, the value
\* idle_percent yields is at most 100, and the caller's 100 - idle_percent
\* does not underflow and is a value in 0..100.
C14_BusyInRange ==
    \A k \in 1..Len(Snapshots) :
        ~is_aggregate(Snapshots[k].stats) =>
            LET idle == idle_percent(Snapshots[k], overflow_checks)
                busy == percent_busy(Snapshots[k], overflow_checks)
            IN  idle.some =>
                    /\ Leq(idle.val, U64(100))
                    /\ busy.some
                    /\ Leq(busy.val, U64(100))

\* C15: every snapshot read() returns has the name of the baseline record at
\* its position, and is the aggregate exactly when that record is.
C15_BaselineIdentity ==
    \A k \in 1..Len(Snapshots) :
        /\ Snapshots[k].stats.name = ret.baseline[k].name
        /\ is_aggregate(Snapshots[k].stats) <=> is_aggregate(ret.baseline[k])

\* the feed's rows changed places between the reads: a snapshot named after
\* the aggregate holds the counters of a single core less the aggregate's
C15_Witness ==
    /\ ReadOk
    /\ \E k \in 1..Len(Snapshots) :
         /\ ret.baseline[k].name = CPU
         /\ ret.raw.val[k].name = CPU0
         /\ is_aggregate(Snapshots[k].stats)
         /\ ~is_aggregate(ret.raw.val[k])
         /\ IsDifference(Snapshots[k].stats.idle_time,
                         ret.baseline[k].idle_time, ret.raw.val[k].idle_time)
         /\ Snapshots[k].stats.io_wait = ret.raw.val[k].io_wait

----------------------------------------------------------------------------
\* Claims about the life of the context.

\* a call of new() or read() has just returned
Returned == ret' # ret /\ ret'.op \in {"new", "read"}

\* C16: a context exists only seeded.  A construction that fails leaves no
\* context, one that succeeds leaves a context whose baseline is what its raw
\* read returned; a read() that succeeds leaves the baseline its raw read
\* returned, and a read() that does not (an I/O error, or a panic the caller
\* caught) leaves the baseline it found; no step takes the context away, and
\* read() can be called on every context.
C16_AlwaysSeeded ==
    /\ [](constructed => ENABLED Read)
    /\ [][/\ constructed => constructed'
          /\ (Returned /\ ret'.result.kind = "ok") =>
                /\ constructed'
                /\ Ok(last_stats') = RawRead[ret'.feed]
          /\ (Returned /\ ret'.result.kind # "ok") =>
                /\ constructed' = constructed
                /\ last_stats' = last_stats
          /\ ~Returned => last_stats' = last_stats]_vars

\* a read could not open the feed, and the context holds what an earlier raw
\* read returned
C16_Witness ==
    /\ constructed
    /\ ReadReturned
    /\ ret.feed.fault.kind = "open"
    /\ ret.result = Err
    /\ last_stats # <<>>
    /\ \E feed \in FeedReads : RawRead[feed] = Ok(last_stats)

----------------------------------------------------------------------------
\* Claims about the end of the line.

\* the atoms the parser reads after the identity: the placeholder atom of the
\* aggregate row and ten counters
AtomsRead(r) == 10 + blank_atoms(r.id)

\* more atoms follow the identity than the parser reads
HasTrailing(r) == SpaceSeparated(r) /\ Len(AtomsAfterId(r)) > AtomsRead(r)

\* the line cut after the last atom the parser reads
CutLine(r) ==
    Join(<<r.id>> \o SubSeq(AtomsAfterId(r), 1, AtomsRead(r)), <<SP>>)

\* C17: the parser reads ten counter atoms and ignores what follows the
\* tenth: a line with atoms after it gives what the line cut after the tenth
\* counter gives, and is accepted when the ten are unsigned 64-bit integers.
C17_TrailingIgnored ==
    (Parsed /\ HasTrailing(ret)) =>
        /\ ret.result = from_str(CutLine(ret))
        /\ TenNumerals(CounterAtoms(ret)) => ret.result.some

\* a line of a single core with a word after its tenth counter was accepted
\* with the ten counters
C17_Witness ==
    /\ Parsed
    /\ ret.id = CPU0
    /\ ret.gap = <<SP>>
    /\ ret.sep = <<SP>>
    /\ Len(ret.toks) = 11
    /\ ret.toks[11] = <<"x">>
    /\ ret.result.some
    /\ RoundTrip(ret.result.val, SubSeq(ret.toks, 1, 10))

====
